---- MODULE Spec2Model ----
(***************************************************************************)
(* Model of src/common.h of NeRFRenderCore:                                *)
(*   - CHECK_DATA(varname, data_type, data_ptr, data_size, stream): a host *)
(*     vector is allocated, a device-to-host cudaMemcpyAsync is enqueued   *)
(*     on `stream` under CUDA_CHECK_THROW, and cudaStreamSynchronize is    *)
(*     called with its result discarded;                                   *)
(*   - READWRITE_PROPERTY / READONLY_PROPERTY: a private field with a      *)
(*     default, a getter, and (read-write only) a setter.                  *)
(* The CUDA runtime the macro calls is modelled as in-order streams of     *)
(* pending operations that the device executes asynchronously, with a      *)
(* sticky device error.                                                    *)
(***************************************************************************)
EXTENDS Integers, Sequences, FiniteSets, TLC

\* ---------------------------------------------------------------- bounds
BufLen == 2         \* elements in the device buffer data_ptr points to
MaxPending == 2     \* kernels the caller leaves pending before a snapshot
MaxObjs == 2        \* objects of the class declaring the properties

\* data_type: the macros never inspect an element, so two values stand for
\* the type: 0, the value-initialised element, and one other.
Values == {0, 1}
Streams == {"s1", "s2"}
BadStream == "invalid"          \* a stream handle the runtime rejects
Indices == 1..BufLen

\* ------------------------------------------------------------- variables
VARIABLES
    dev,          \* contents of the device buffer at data_ptr
    queue,        \* per stream: operations enqueued and not yet executed
    devErr,       \* sticky asynchronous error of the CUDA context
    pc,           \* position of the host thread in the CHECK_DATA expansion
    varname,      \* the std::vector<data_type> the macro declares
    data_size,    \* macro argument
    stream,       \* macro argument
    enqResult,    \* value returned by cudaMemcpyAsync
    syncResult,   \* value returned by cudaStreamSynchronize (discarded)
    copyDone,     \* the copy enqueued by this expansion has transferred
    atCall,       \* history: dev when the expansion started
    expect,       \* history: dev at call with the ops pending on stream applied
    quiet,        \* history: no write was pending on another stream at call
    obj,          \* per object: alive flag and property fields
    lastSet,      \* history: per object and field, last setter argument
    ret           \* last getter call: object, field, returned value

snapVars == <<dev, queue, devErr, pc, varname, data_size, stream, enqResult,
              syncResult, copyDone, atCall, expect, quiet>>
accVars == <<obj, lastSet, ret>>
vars == <<dev, queue, devErr, pc, varname, data_size, stream, enqResult,
          syncResult, copyDone, atCall, expect, quiet, obj, lastSet, ret>>

\* ------------------------------------------------- stream operations
WriteOp(i, v) == [type |-> "write", idx |-> i, val |-> v]
FaultOp == [type |-> "fault", idx |-> 0, val |-> 0]
CopyOp(n) == [type |-> "copy", idx |-> n, val |-> 0]

RECURSIVE ApplyWrites(_, _)
\* The buffer after the write kernels of ops ran in issue order.
ApplyWrites(buf, ops) ==
    IF ops = <<>> THEN buf
    ELSE LET op == Head(ops)
             nb == IF op.type = "write" THEN [buf EXCEPT ![op.idx] = op.val]
                   ELSE buf
         IN ApplyWrites(nb, Tail(ops))

HasWrite(ops) == \E k \in 1..Len(ops) : ops[k].type = "write"

TotalPending == Len(queue["s1"]) + Len(queue["s2"])

NewVector_OffByOne(n) == [i \in 1..(n + 1) |-> 0]

\* std::vector<data_type> varname(data_size): data_size value-initialised
\* elements.
NewVector(n) == [i \in 1..n |-> 0]

MemcpyKind_HostToDevice == "cudaMemcpyHostToDevice"

\* The transfer kind CHECK_DATA passes to cudaMemcpyAsync.
MemcpyKind == "cudaMemcpyDeviceToHost"

CopyCount_NoSizeof(n) == n \div 2

\* Number of elements in data_size * sizeof(data_type) bytes.
CopyCount(n) == n

\* cudaMemcpy semantics: <<host, device>> after count elements moved in the
\* direction kind.
Transfer(kind, host, device, count) ==
    IF kind = "cudaMemcpyDeviceToHost"
    THEN << [i \in 1..Len(host) |-> IF i <= count THEN device[i] ELSE host[i]],
            device >>
    ELSE << host,
            [i \in Indices |-> IF i <= count THEN host[i] ELSE device[i]] >>

\* cudaMemcpyAsync's return value: an invalid stream handle or a sticky
\* error from an earlier asynchronous launch is reported at enqueue time.
EnqueueStatus(s) ==
    IF s \notin Streams THEN "cudaErrorInvalidResourceHandle"
    ELSE IF devErr THEN "cudaErrorLaunchFailure"
    ELSE "cudaSuccess"

SyncReady_NoWait(s) == TRUE

SyncReady_Device(s) == \A t \in Streams : queue[t] = <<>>

\* cudaStreamSynchronize(stream) blocks until the stream has drained.
SyncReady(s) == queue[s] = <<>>

\* cudaStreamSynchronize's return value.
SyncStatus == IF devErr THEN "cudaErrorLaunchFailure" ELSE "cudaSuccess"

\* CUDA_CHECK_THROW(x): throws unless x is cudaSuccess.
CheckThrow(result) == result # "cudaSuccess"

\* ------------------------------------------------------------- Init
FieldNames == {"a", "b", "c"}
RWNames == {"a", "b"}           \* declared with READWRITE_PROPERTY
RONames == {"c"}                \* declared with READONLY_PROPERTY
Default == [a |-> 1, b |-> 0, c |-> 1]
ObjIds == 1..MaxObjs
Unbuilt == [alive |-> FALSE, f |-> [n \in FieldNames |-> 0]]
NoRet == [obj |-> 0, name |-> "none", val |-> 0]

Init ==
    /\ dev \in [Indices -> Values]
    /\ queue = [s \in Streams |-> <<>>]
    /\ devErr = FALSE
    /\ pc = "idle"
    /\ varname = <<>>
    /\ data_size = 0
    /\ stream = "s1"
    /\ enqResult = "none"
    /\ syncResult = "none"
    /\ copyDone = FALSE
    /\ atCall = dev
    /\ expect = dev
    /\ quiet = TRUE
    /\ obj = [o \in ObjIds |-> Unbuilt]
    /\ lastSet = [o \in ObjIds |-> [n \in FieldNames |-> Default[n]]]
    /\ ret = NoRet

hostVars == <<pc, varname, data_size, stream, enqResult, syncResult,
              copyDone, atCall, expect, quiet>>

\* ------------------------------------------- caller and device actions
\* The caller launches a kernel on stream s that stores v in element i.
LaunchWrite(s, i, v) ==
    /\ pc = "idle"
    /\ TotalPending < MaxPending
    /\ queue' = [queue EXCEPT ![s] = Append(@, WriteOp(i, v))]
    /\ UNCHANGED <<dev, devErr, hostVars, accVars>>

\* The caller launches a kernel on stream s that will fault.
LaunchFaulty(s) ==
    /\ pc = "idle"
    /\ TotalPending < MaxPending
    /\ queue' = [queue EXCEPT ![s] = Append(@, FaultOp)]
    /\ UNCHANGED <<dev, devErr, hostVars, accVars>>

\* The device runs the write kernel at the head of stream s.
ExecWrite(s) ==
    /\ queue[s] # <<>>
    /\ ~devErr
    /\ Head(queue[s]).type = "write"
    /\ dev' = [dev EXCEPT ![Head(queue[s]).idx] = Head(queue[s]).val]
    /\ queue' = [queue EXCEPT ![s] = Tail(@)]
    /\ UNCHANGED <<devErr, hostVars, accVars>>

\* The kernel at the head of stream s faults: the error becomes sticky.
ExecFault(s) ==
    /\ queue[s] # <<>>
    /\ ~devErr
    /\ Head(queue[s]).type = "fault"
    /\ devErr' = TRUE
    /\ queue' = [queue EXCEPT ![s] = Tail(@)]
    /\ UNCHANGED <<dev, hostVars, accVars>>

\* The device runs the copy CHECK_DATA enqueued on stream s.
ExecCopy(s) ==
    /\ queue[s] # <<>>
    /\ ~devErr
    /\ Head(queue[s]).type = "copy"
    /\ LET r == Transfer(MemcpyKind, varname, dev, Head(queue[s]).idx)
       IN /\ varname' = r[1]
          /\ dev' = r[2]
    /\ copyDone' = TRUE
    /\ queue' = [queue EXCEPT ![s] = Tail(@)]
    /\ UNCHANGED <<devErr, pc, data_size, stream, enqResult, syncResult,
                   atCall, expect, quiet, accVars>>

\* After a sticky error the pending work of a stream is dropped unexecuted.
ExecAborted(s) ==
    /\ queue[s] # <<>>
    /\ devErr
    /\ queue' = [queue EXCEPT ![s] = Tail(@)]
    /\ UNCHANGED <<dev, devErr, hostVars, accVars>>

\* ------------------------------------------------ CHECK_DATA, line by line
\* std::vector<data_type> varname(data_size);
DeclareVector(n, s) ==
    /\ pc = "idle"
    /\ pc' = "memcpy"
    /\ varname' = NewVector(n)
    /\ data_size' = n
    /\ stream' = s
    /\ enqResult' = "none"
    /\ syncResult' = "none"
    /\ copyDone' = FALSE
    /\ atCall' = dev
    /\ expect' = IF s \in Streams THEN ApplyWrites(dev, queue[s]) ELSE dev
    /\ quiet' = \A t \in Streams \ {s} : ~HasWrite(queue[t])
    /\ UNCHANGED <<dev, queue, devErr, accVars>>

\* CUDA_CHECK_THROW(cudaMemcpyAsync(varname.data(), data_ptr,
\*     data_size * sizeof(data_type), cudaMemcpyDeviceToHost, stream));
MemcpyAsync ==
    /\ pc = "memcpy"
    /\ enqResult' = EnqueueStatus(stream)
    /\ IF CheckThrow(EnqueueStatus(stream))
       THEN /\ pc' = "thrown"
            /\ queue' = queue
       ELSE /\ pc' = "sync"
            /\ queue' = [queue EXCEPT
                           ![stream] = Append(@, CopyOp(CopyCount(data_size)))]
    /\ UNCHANGED <<dev, devErr, varname, data_size, stream, syncResult,
                   copyDone, atCall, expect, quiet, accVars>>

\* cudaStreamSynchronize(stream);   -- the returned status is not examined
StreamSynchronize ==
    /\ pc = "sync"
    /\ SyncReady(stream)
    /\ syncResult' = SyncStatus
    /\ pc' = "returned"
    /\ UNCHANGED <<dev, queue, devErr, varname, data_size, stream, enqResult,
                   copyDone, atCall, expect, quiet, accVars>>

\* The caller is done with varname (or has handled the exception).
Leave ==
    /\ pc \in {"returned", "thrown"}
    /\ pc' = "idle"
    /\ varname' = <<>>
    /\ data_size' = 0
    /\ stream' = "s1"
    /\ enqResult' = "none"
    /\ syncResult' = "none"
    /\ copyDone' = FALSE
    /\ atCall' = dev
    /\ expect' = dev
    /\ quiet' = TRUE
    /\ UNCHANGED <<dev, queue, devErr, accVars>>

\* ------------------------------------------------------- accessors
\* type name = default;  for every property of the class
construct == [alive |-> TRUE, f |-> [n \in FieldNames |-> Default[n]]]

\* type get_##name() const { return name; }
get(self, name) == self.f[name]

set_Ignore(self, name, value) == self

\* void set_##name(type value) { name = value; }
set(self, name, value) == [self EXCEPT !.f[name] = value]

HasSetter_Always(name) == TRUE

\* READWRITE_PROPERTY generates set_##name; READONLY_PROPERTY does not.
HasSetter(name) == name \in RWNames

Construct(o) ==
    /\ ~obj[o].alive
    /\ obj' = [obj EXCEPT ![o] = construct]
    /\ UNCHANGED <<lastSet, ret, snapVars>>

Get(o, name) ==
    /\ obj[o].alive
    /\ ret' = [obj |-> o, name |-> name, val |-> get(obj[o], name)]
    /\ UNCHANGED <<obj, lastSet, snapVars>>

Set(o, name, value) ==
    /\ obj[o].alive
    /\ HasSetter(name)
    /\ obj' = [obj EXCEPT ![o] = set(@, name, value)]
    /\ lastSet' = [lastSet EXCEPT ![o][name] = value]
    /\ UNCHANGED <<ret, snapVars>>

\* ------------------------------------------------------ specifications
Next ==
    \/ \E s \in Streams, i \in Indices, v \in Values : LaunchWrite(s, i, v)
    \/ \E s \in Streams : LaunchFaulty(s)
    \/ \E s \in Streams : ExecWrite(s)
    \/ \E s \in Streams : ExecFault(s)
    \/ \E s \in Streams : ExecCopy(s)
    \/ \E s \in Streams : ExecAborted(s)
    \/ \E n \in 0..BufLen, s \in Streams \cup {BadStream} : DeclareVector(n, s)
    \/ MemcpyAsync
    \/ StreamSynchronize
    \/ Leave

Spec == Init /\ [][Next]_vars

NextAcc ==
    \/ \E o \in ObjIds : Construct(o)
    \/ \E o \in ObjIds, name \in FieldNames : Get(o, name)
    \/ \E o \in ObjIds, name \in FieldNames, value \in Values : Set(o, name, value)

SpecAcc == Init /\ [][NextAcc]_vars

\* ---------------------------------------------------------------- claims
Returned == pc = "returned"
SyncOk == syncResult = "cudaSuccess"
OtherStreams == Streams \ {stream}

C2_NeverPartial == Returned => (copyDone \/ data_size = 0)

\* C3: a failure reported by cudaMemcpyAsync (a) or by
\* cudaStreamSynchronize (b) ends CHECK_DATA with the error thrown, never
\* with a normal return.
C3_FailuresThrow ==
    /\ enqResult \notin {"none", "cudaSuccess"} => pc = "thrown"
    /\ syncResult \notin {"none", "cudaSuccess"} => pc = "thrown"

\* C4: when CHECK_DATA returns on a stream, nothing enqueued on that stream
\* is still pending, so a second synchronize would not block; and the
\* synchronize step is only reached after the copy was enqueued.
C4_FullStreamBarrier ==
    /\ Returned => queue[stream] = <<>> /\ SyncReady(stream)
    /\ pc \in {"sync", "returned"} => enqResult = "cudaSuccess"

C4_Witness ==
    /\ Returned /\ queue[stream] = <<>>
    /\ expect # atCall
    /\ \E t \in OtherStreams : queue[t] # <<>>

\* C5: when CHECK_DATA returns, varname holds the buffer as of the copy's
\* position in the stream's order: every operation enqueued on the stream
\* before the copy has taken effect, in issue order.  (Stated for the case
\* where no other stream writes the buffer, where that value is determined.)
C5_StreamOrder ==
    (Returned /\ quiet) => \A i \in 1..data_size : varname[i] = expect[i]

\* C8 as stated: with data_size = 0, CHECK_DATA returns an empty vector, no
\* copy operation is issued on the stream, and the stream has drained.
C8_NoCopyIssued ==
    (data_size = 0 /\ pc \in {"sync", "returned"}) =>
        /\ varname = <<>>
        /\ enqResult # "cudaSuccess"
        /\ Returned => queue[stream] = <<>>

\* C8 amended: with data_size = 0, CHECK_DATA returns an empty vector and
\* moves no element, the zero-byte copy is still issued on the stream (its
\* enqueue failure still throws), and nothing enqueued on the stream is
\* pending at the return.
C8_ZeroLength ==
    data_size = 0 =>
        /\ Returned => /\ varname = <<>>
                       /\ enqResult = "cudaSuccess"
                       /\ queue[stream] = <<>>
        /\ pc = "sync" =>
               \/ copyDone
               \/ devErr
               \/ (queue[stream] # <<>>
                   /\ queue[stream][Len(queue[stream])] = CopyOp(0))
        /\ enqResult \notin {"none", "cudaSuccess"} => pc = "thrown"

C8_Witness ==
    /\ Returned /\ data_size = 0 /\ varname = <<>>
    /\ copyDone /\ SyncOk
    /\ expect # atCall /\ dev = expect

\* C9: no step of CHECK_DATA writes the device buffer: the buffer changes
\* only when a write kernel launched by the caller runs.
C9_BufferReadOnly ==
    [][dev' # dev => \E s \in Streams : ExecWrite(s)]_vars

C9_Witness ==
    /\ Returned /\ copyDone /\ data_size = BufLen
    /\ dev = atCall /\ \E i \in Indices : dev[i] # 0
    /\ \A i \in Indices : varname[i] = dev[i]

\* C10: CHECK_DATA waits for and orders only its own stream: the
\* synchronize step can return, and the copy can run, whatever is pending on
\* the other streams.
C10_OnlyOwnStream ==
    /\ (pc = "sync" /\ queue[stream] = <<>>) => ENABLED StreamSynchronize
    /\ (pc = "sync" /\ ~devErr /\ queue[stream] # <<>>
          /\ Head(queue[stream]).type = "copy") => ENABLED ExecCopy(stream)

\* Returned with a write to a copied element still pending on another stream.
C10_Witness ==
    /\ Returned /\ copyDone /\ ~quiet
    /\ \E t \in OtherStreams : \E k \in 1..Len(queue[t]) :
          /\ queue[t][k].type = "write"
          /\ queue[t][k].idx <= data_size
          /\ queue[t][k].val # varname[queue[t][k].idx]

\* ------------------------------------------------------ accessor claims
\* C6: a READWRITE_PROPERTY getter returns the default after construction
\* and afterwards the argument of the latest setter call on that field, and a
\* setter call changes no other field of any object.
C6_ReadWriteProperty ==
    /\ [](\A o \in ObjIds : \A name \in RWNames :
             obj[o].alive => get(obj[o], name) = lastSet[o][name])
    /\ [][\A o \in ObjIds : \A name \in FieldNames : \A value \in Values :
             Set(o, name, value) =>
                 \A p \in ObjIds : \A m \in FieldNames :
                     (p # o \/ m # name) => obj'[p].f[m] = obj[p].f[m]]_vars

C6_Witness ==
    \E o \in ObjIds :
        /\ obj[o].alive
        /\ obj[o].f["a"] # Default["a"]
        /\ obj[o].f["b"] # Default["b"]
        /\ ret = [obj |-> o, name |-> "a", val |-> lastSet[o]["a"]]

\* C7: a READONLY_PROPERTY getter returns the default, and no operation
\* changes the field once the object is constructed.
C7_ReadOnlyProperty ==
    /\ [](\A o \in ObjIds : \A name \in RONames :
             obj[o].alive => get(obj[o], name) = Default[name])
    /\ [][\A o \in ObjIds : \A name \in RONames :
             obj[o].alive => obj'[o].f[name] = obj[o].f[name]]_vars

C7_Witness ==
    \E o \in ObjIds :
        /\ obj[o].alive
        /\ obj[o].f["a"] # Default["a"]
        /\ ret = [obj |-> o, name |-> "c", val |-> Default["c"]]

====
